---- MODULE Spec2Model ----
(***************************************************************************)
(* Model of the message listener of src/src/index.js: the per-message      *)
(* pipeline (text extraction, distribution cache, addressing policy, NLU   *)
(* query, intent dispatch, response composition, send) and the identity    *)
(* handlers of IntentManager.  Each message is one invocation of the       *)
(* async 'message' listener; an action is the code that runs between two   *)
(* awaits on an external call.                                             *)
(***************************************************************************)
EXTENDS Integers, Sequences, FiniteSets, TLC

\* ------------------------------------------------------------------ bounds

\* Number of messages the receiver delivers in one behaviour.
NumMsgs == 2

\* Longest text / name, in characters, of the addressing-policy inputs.
MaxLen == 3

Msgs == 1..NumMsgs

\* ------------------------------------------------------------- JS values

\* The JS value undefined where a string may stand; as a text it prints as
\* the word "undefined".
Undefined == <<"undefined">>

\* JS truthiness of a string-or-undefined value.
Truthy(s) == s # Undefined /\ s # <<>>

Chars == {"a", "A", "b", "B", ".", " "}

\* String.prototype.toLowerCase on one character.
Lower(c) == CASE c = "A" -> "a" [] c = "B" -> "b" [] OTHER -> c

\* One pattern character of a RegExp built from a name, flag 'i', against one
\* text character: '.' is the wildcard, anything else matches itself up to
\* case.
ReCharMatch(p, c) == p = "." \/ Lower(p) = Lower(c)

\* new RegExp(undefined) is the empty pattern /(?:)/.
ReSource(name) == IF name = Undefined THEN <<>> ELSE name

\* text.match(new RegExp(name, 'i')) is non-null.
ReMatch(name, text) ==
    LET pat == ReSource(name)
    IN  \E i \in 1..(Len(text) + 1) :
            /\ i + Len(pat) - 1 <= Len(text)
            /\ \A j \in 1..Len(pat) : ReCharMatch(pat[j], text[i + j - 1])

\* ---------------------------------------------------------- bot identity

BotId == "bot"

\* needsResponse without members.delete(sender).
needsResponseKeepSender(botId, sbot, sender, dist, text) ==
    LET members == dist.userids \ {botId}
    IN  IF members = {}
        THEN TRUE
        ELSE \/ ReMatch(sbot.first_name, text)
             \/ ReMatch(sbot.last_name, text)
             \/ ReMatch(sbot.tag.slug, text)

\* needsResponse of msgListener: botId is the id of the bot object the
\* listener was started with, sbot is state.bot at the time of the call.
needsResponse(botId, sbot, sender, dist, text) ==
    LET members == (dist.userids \ {botId}) \ {sender}
    IN  IF members = {}
        THEN TRUE
        ELSE \/ ReMatch(sbot.first_name, text)
             \/ ReMatch(sbot.last_name, text)
             \/ ReMatch(sbot.tag.slug, text)

\* --------------------------------------------------------- text helpers

IsSpace(c) == c = " "

\* Index of the first whitespace character of s, or 0.
FirstSpace(s) ==
    IF \E i \in 1..Len(s) : IsSpace(s[i])
    THEN CHOOSE i \in 1..Len(s) :
            IsSpace(s[i]) /\ \A j \in 1..(i - 1) : ~IsSpace(s[j])
    ELSE 0

\* Index of the last character of the whitespace run that starts at i.
RunEnd(s, i) ==
    CHOOSE k \in i..Len(s) :
        /\ \A j \in i..k : IsSpace(s[j])
        /\ (k = Len(s) \/ ~IsSpace(s[k + 1]))

\* String.prototype.split(/\s+/): the pieces between whitespace runs, an
\* empty piece where the string starts or ends with whitespace.
RECURSIVE SplitWs(_)
SplitWs(s) ==
    LET i == FirstSpace(s)
    IN  IF i = 0
        THEN <<s>>
        ELSE <<SubSeq(s, 1, i - 1)>> \o SplitWs(SubSeq(s, RunEnd(s, i) + 1, Len(s)))

\* TakeN keeping one piece less than the limit.
TakeNOneLess(seq, n) == SubSeq(seq, 1, IF Len(seq) < n - 1 THEN Len(seq) ELSE n - 1)

\* The limit argument of split: at most n pieces are kept.
TakeN(seq, n) == SubSeq(seq, 1, IF Len(seq) < n THEN Len(seq) ELSE n)

\* params.name.split(/\s+/, 3)
SplitName(name) == TakeN(SplitWs(name), 3)

\* String.prototype.replace(/\s+/g, '.'): every whitespace run becomes one '.'.
RECURSIVE ReplaceWs(_)
ReplaceWs(s) ==
    LET i == FirstSpace(s)
    IN  IF i = 0
        THEN s
        ELSE SubSeq(s, 1, i - 1) \o <<".">>
                \o ReplaceWs(SubSeq(s, RunEnd(s, i) + 1, Len(s)))

ToLowerCase(s) == [i \in 1..Len(s) |-> Lower(s[i])]

\* params.name.replace(/\s+/g, '.').toLowerCase()
Slugify(name) == ToLowerCase(ReplaceWs(name))

\* ------------------------------------------------------- intent manager

\* Keys of IntentManager.handlers: every method whose name starts with
\* 'handle', CaseStyleName turned into case.style.name.
HandlerNames == {"name.agent.get", "name.agent.change", "name.agent.delete"}

NoHandler == "undefined"

\* findHandler falling back to a handler of the same family on a miss.
findHandlerLoose(name) == IF name \in HandlerNames THEN name ELSE "name.agent.get"

\* IntentManager.findHandler: Map.get, undefined on a miss.
findHandler(name) == IF name \in HandlerNames THEN name ELSE NoHandler

\* The updates object of a handler: a function from the fields it sets.
NoUpdates == [f \in {} |-> <<>>]

\* What a handler does up to its first await: it returns a value, throws, or
\* suspends on a PATCH request (call "user" or "tag") carrying updates.
Returned(v) == [kind |-> "return", value |-> v, call |-> "none", updates |-> NoUpdates]
Thrown(e) == [kind |-> "throw", value |-> e, call |-> "none", updates |-> NoUpdates]
Awaits(c, u) == [kind |-> "await", value |-> <<>>, call |-> c, updates |-> u]

Or(a, b) == IF Truthy(a) THEN a ELSE b

\* IntentManager.handleNameAgentGet; chance is Math.random() in hundredths.
handleNameAgentGet(bot, params, chance) ==
    IF params.type # ""
    THEN CASE params.type = "first name" ->
                Returned(Or(bot.first_name, <<"I don't have a first name.">>))
           [] params.type = "last name" ->
                Returned(Or(bot.last_name, <<"I don't have a last name.">>))
           [] params.type = "middle name" ->
                Returned(Or(bot.middle_name, <<"I don't have a middle name.">>))
           [] params.type = "tag" ->
                Returned(<<"@">> \o bot.tag.slug \o <<":">> \o bot.org.slug)
           [] OTHER -> Returned(Undefined)
    ELSE IF chance < 33
         THEN Returned(<<"You can call me ">> \o bot.first_name)
         ELSE IF chance < 66
              THEN Returned(<<"You are speaking with ">> \o bot.first_name
                                \o <<" ">> \o bot.last_name)
              ELSE Returned(<<"My tag is @">> \o bot.tag.slug \o <<":">> \o bot.org.slug)

TypeError == <<"TypeError: Cannot read property 'replace' of undefined">>

\* handleNameAgentChange taking the first word of any name as the first name,
\* whatever the type.
handleNameAgentChangeUntyped(params) ==
    IF Truthy(params.name)
    THEN Awaits("user", "first_name" :> SplitName(params.name)[1])
    ELSE Returned(<<"To what?">>)

\* IntentManager.handleNameAgentChange up to its await.
handleNameAgentChange(params) ==
    IF params.type # ""
    THEN CASE params.type = "first name" ->
                Awaits("user", "first_name" :> params.name)
           [] params.type = "last name" ->
                Awaits("user", "last_name" :> params.name)
           [] params.type = "middle name" ->
                Awaits("user", "middle_name" :> params.name)
           [] params.type = "tag" ->
                IF params.name = Undefined
                THEN Thrown(TypeError)
                ELSE Awaits("tag", "slug" :> Slugify(params.name))
           [] OTHER -> Awaits("user", NoUpdates)
    ELSE IF Truthy(params.name)
         THEN LET names == SplitName(params.name)
              IN  Awaits("user",
                    ("first_name" :> names[1])
                    @@ (IF Len(names) = 2
                        THEN "last_name" :> names[2]
                        ELSE IF Len(names) = 3
                             THEN ("middle_name" :> names[2]) @@ ("last_name" :> names[3])
                             ELSE NoUpdates))
         ELSE Returned(<<"To what?">>)

\* IntentManager.handleNameAgentDelete up to its await.
handleNameAgentDelete(params) ==
    IF params.type = ""
    THEN Returned(<<"I can't delete my whole name silly.">>)
    ELSE CASE params.type = "first name" -> Returned(<<"I must have a first name!">>)
           [] params.type = "last name" -> Returned(<<"I must have a last name!">>)
           [] params.type = "middle name" -> Awaits("user", "middle_name" :> <<>>)
           [] params.type = "tag" -> Returned(<<"I must have a tag!">>)
           [] OTHER -> Awaits("user", NoUpdates)

\* intentHandler(aiResp.parameters) for the handler findHandler returned.
InvokeHandler(h, bot, params, chance) ==
    CASE h = "name.agent.get" -> handleNameAgentGet(bot, params, chance)
      [] h = "name.agent.change" -> handleNameAgentChange(params)
      [] h = "name.agent.delete" -> handleNameAgentDelete(params)

\* The confirmation both user-patching handlers build from the returned bot.
ConfirmUser(bot) ==
    <<"Okay, I'm now ">> \o bot.first_name \o <<" ">> \o bot.middle_name
        \o <<" ">> \o bot.last_name

\* The confirmation of the tag branch of handleNameAgentChange.
ConfirmTag(tag, bot) ==
    <<"Okay, my tag is now @">> \o tag.slug \o <<":">> \o bot.org.slug

\* JSON.stringify drops the fields whose value is undefined.
JsonFields(updates) == {f \in DOMAIN updates : updates[f] # Undefined}

\* The directory service answering PATCH /v1/user/<id>/: the fields of the
\* body overwrite the stored user, whose representation is returned.
PatchUser(user, updates) ==
    [f \in DOMAIN user |->
        IF f \in JsonFields(updates) THEN updates[f] ELSE user[f]]

\* The directory service answering PATCH /v1/tag/<id>/.
PatchTag(tag, updates) ==
    [f \in DOMAIN tag |->
        IF f \in JsonFields(updates) THEN updates[f] ELSE tag[f]]

\* ---------------------------------------------------- response composer

\* respMsg as the listener first builds it: text is the fulfillment speech.
BaseResp(distribution, threadId, ai) ==
    [distribution |-> distribution, threadId |-> threadId,
     text |-> ai.speech, html |-> Undefined]

\* A handler result: a string replaces the text, undefined merges nothing.
WithResult(resp, res) ==
    IF res # Undefined THEN [resp EXCEPT !.text = res] ELSE resp

\* WithError setting the text alone.
WithErrorTextOnly(resp, e) ==
    [resp EXCEPT !.text = <<"Affraid I can't do that boss...\n(">> \o e \o <<")">>]

\* The catch block around the handler call; e prints as itself.
WithError(resp, e) ==
    [resp EXCEPT !.text = <<"Affraid I can't do that boss...\n(">> \o e \o <<")">>,
                 !.html = <<"Affraid I can't do that boss...<br/><pre>">> \o e
                              \o <<"</pre>">>]

NothingToDo(action) == <<"I have nothing to do with: \"">> \o <<action>> \o <<"\"">>

\* WithFallback without the test of the text.
NoFallback(resp, action) == resp

\* if (!respMsg.text) respMsg.text = `I have nothing to do with: ...`
WithFallback(resp, action) ==
    IF ~Truthy(resp.text) THEN [resp EXCEPT !.text = NothingToDo(action)] ELSE resp

\* ------------------------------------------------------ incoming events

Part(type, value) == [type |-> type, value |-> value]

\* The index of the first text/plain part of a body, or 0.
FirstPlain(body) ==
    IF \E i \in 1..Len(body) : body[i].type = "text/plain"
    THEN CHOOSE i \in 1..Len(body) :
            /\ body[i].type = "text/plain"
            /\ \A j \in 1..(i - 1) : body[j].type # "text/plain"
    ELSE 0

\* TextOf looking past an empty text/plain part for one that has text.
TextOfNonEmpty(data) ==
    IF data.hasBody /\ \E i \in 1..Len(data.body) :
            data.body[i].type = "text/plain" /\ data.body[i].value # <<>>
    THEN data.body[CHOOSE i \in 1..Len(data.body) :
            data.body[i].type = "text/plain" /\ data.body[i].value # <<>>].value
    ELSE Undefined

\* The text the listener extracts: the value of the first text/plain part of
\* msg.data.body, undefined without a body or without such a part.
TextOf(data) ==
    IF ~data.hasBody \/ FirstPlain(data.body) = 0
    THEN Undefined
    ELSE data.body[FirstPlain(data.body)].value

NoBody == [hasBody |-> FALSE, body |-> <<>>]
Body(parts) == [hasBody |-> TRUE, body |-> parts]

\* A text that mentions none of the initial names of the bot.
TextPlain == <<"b", "b">>

\* The bodies the receiver delivers: no body, a first text/plain part that is
\* empty, no text/plain part, and a text after a part of another type.
MsgData ==
    { NoBody,
      Body(<<Part("text/html", TextPlain), Part("text/plain", <<>>),
             Part("text/plain", TextPlain)>>),
      Body(<<Part("text/html", TextPlain)>>),
      Body(<<Part("text/html", <<>>), Part("text/plain", TextPlain)>>) }

Exprs == {"e1", "e2"}
Sources == {"u1"}

\* Every message opens a thread of its own.
ThreadOf(m) == <<"thread", m>>

\* What atlas.resolveTags may answer: a direct conversation, a group.
Dists == { [userids |-> {BotId, "u1"}], [userids |-> {BotId, "u1", "u2"}] }

Events(m) ==
    [source : Sources, expr : Exprs, threadId : {ThreadOf(m)}, data : MsgData]

NoEvent == [source |-> "", expr |-> "", threadId |-> <<>>, data |-> NoBody]
NoDist == [userids |-> {}]

\* ---------------------------------------------------------- NLU results

Params(type, name) == [type |-> type, name |-> name]
Ai(action, params, speech) ==
    [action |-> action, parameters |-> params, speech |-> speech]

Speech == <<"Sure.">>

AiResps ==
    { Ai("unknown.intent", Params("", <<>>), Speech),
      Ai("unknown.intent", Params("", <<>>), <<>>),
      Ai("name.agent.get", Params("first name", <<>>), Speech),
      Ai("name.agent.change", Params("", <<"B", " ", "b">>), Speech),
      Ai("name.agent.change", Params("tag", <<"B", " ", "b">>), Speech),
      Ai("name.agent.change", Params("tag", Undefined), Speech) }

NoAi == Ai("", Params("", <<>>), <<>>)

\* Math.random() in hundredths: one value per branch of the Get handler.
Chances == {10, 50, 90}

\* The values Math.random() may give a handler call: only the Get handler
\* called without a type draws one.
RandomDraws(h, params) ==
    IF h = "name.agent.get" /\ params.type = "" THEN Chances ELSE {0}

\* What a rejected atlas.fetch prints as.
FetchError == <<"Error: request failed">>

\* ----------------------------------------------------------------- state

InitBot ==
    [id |-> BotId, first_name |-> <<"A", "b">>, middle_name |-> Undefined,
     last_name |-> <<"B", "a">>,
     tag |-> [id |-> "tag1", slug |-> <<"a", "b", ".", "b", "a">>],
     org |-> [slug |-> <<"o">>]]

NoCall ==
    [kind |-> "none", updates |-> NoUpdates, applied |-> FALSE,
     user |-> InitBot, tag |-> InitBot.tag]

NoEntry == [userids |-> {"none"}]

VARIABLES
    pc,            \* where each message's listener invocation stands
    msg,           \* the event each invocation was called with
    distCache,     \* the Map distCache: expression -> distribution, or NoEntry
    bot,           \* state.bot
    srv,           \* the user record the directory service holds
    distribution,  \* the listener's local const distribution
    aiResp,        \* the listener's local const aiResp
    call,          \* the PATCH request a handler is suspended on
    sent,          \* the messages handed to msgSend.send, per invocation
    nluCalls,      \* aiRequest invocations, per message
    handlerRuns,   \* handler invocations, per message
    resolveCalls,  \* atlas.resolveTags invocations, per expression
    resolveFails,  \* rejected atlas.resolveTags calls, per expression
    afterFail,     \* the message looked its expression up after a failed resolution of it
    caught,        \* the error the listener's catch block caught, per message
    probe,         \* the arguments and identity of one needsResponse call
    answer         \* what that call returned: "true", "undefined", or "none" before it

listenerVars ==
    <<pc, msg, distCache, bot, srv, distribution, aiResp, call, sent,
      nluCalls, handlerRuns, resolveCalls, resolveFails, afterFail, caught>>

probeVars == <<probe, answer>>

vars == <<listenerVars, probeVars>>

NoError == <<>>

NoProbe == [sender |-> "", dist |-> NoDist, text |-> <<>>, bot |-> InitBot]

\* msgListener up to msgRecv.connect(): nothing received, the cache empty,
\* state.bot the user the directory service holds.
ListenerInit ==
    /\ pc = [m \in Msgs |-> "idle"]
    /\ msg = [m \in Msgs |-> NoEvent]
    /\ distCache = [e \in Exprs |-> NoEntry]
    /\ bot = InitBot
    /\ srv = InitBot
    /\ distribution = [m \in Msgs |-> NoDist]
    /\ aiResp = [m \in Msgs |-> NoAi]
    /\ call = [m \in Msgs |-> NoCall]
    /\ sent = [m \in Msgs |-> <<>>]
    /\ nluCalls = [m \in Msgs |-> 0]
    /\ handlerRuns = [m \in Msgs |-> 0]
    /\ resolveCalls = [e \in Exprs |-> 0]
    /\ resolveFails = [e \in Exprs |-> 0]
    /\ afterFail = [m \in Msgs |-> FALSE]
    /\ caught = [m \in Msgs |-> NoError]

Init ==
    /\ ListenerInit
    /\ probe = NoProbe
    /\ answer = "none"

\* distCache.has(expr)
CacheHas(cache, e) == cache[e] # NoEntry

\* Send handing the response to msgSend.send twice.
SendTwice(m, resp) ==
    /\ sent' = [sent EXCEPT ![m] = Append(Append(@, resp), resp)]
    /\ pc' = [pc EXCEPT ![m] = "sending"]

\* msgSend.send(respMsg)
Send(m, resp) ==
    /\ sent' = [sent EXCEPT ![m] = Append(@, resp)]
    /\ pc' = [pc EXCEPT ![m] = "sending"]

\* Address testing the names of the bot object the listener was started with.
AddressStartNames(m, ev, d) ==
    /\ distribution' = [distribution EXCEPT ![m] = d]
    /\ IF needsResponse(BotId, InitBot, ev.source, d, TextOf(ev.data))
       THEN /\ pc' = [pc EXCEPT ![m] = "nlu"]
            /\ nluCalls' = [nluCalls EXCEPT ![m] = @ + 1]
       ELSE /\ pc' = [pc EXCEPT ![m] = "ignored"]
            /\ UNCHANGED nluCalls

\* Address with the aiRequest call issued before the addressing check.
AddressAfterQuery(m, ev, d) ==
    /\ distribution' = [distribution EXCEPT ![m] = d]
    /\ nluCalls' = [nluCalls EXCEPT ![m] = @ + 1]
    /\ IF needsResponse(BotId, bot, ev.source, d, TextOf(ev.data))
       THEN pc' = [pc EXCEPT ![m] = "nlu"]
       ELSE pc' = [pc EXCEPT ![m] = "ignored"]

\* The listener from the addressing check to the aiRequest call, with the
\* distribution d it read from the cache.
Address(m, ev, d) ==
    /\ distribution' = [distribution EXCEPT ![m] = d]
    /\ IF needsResponse(BotId, bot, ev.source, d, TextOf(ev.data))
       THEN /\ pc' = [pc EXCEPT ![m] = "nlu"]
            /\ nluCalls' = [nluCalls EXCEPT ![m] = @ + 1]
       ELSE /\ pc' = [pc EXCEPT ![m] = "ignored"]
            /\ UNCHANGED nluCalls

\* The receiver delivers message m: the listener runs up to its first await.
Receive(m) ==
    /\ pc[m] = "idle"
    /\ UNCHANGED probeVars
    /\ \A k \in Msgs : k < m => pc[k] # "idle"
    /\ \E ev \in Events(m) :
        /\ msg' = [msg EXCEPT ![m] = ev]
        /\ afterFail' = [afterFail EXCEPT ![m] = resolveFails[ev.expr] > 0]
        /\ IF ~Truthy(TextOf(ev.data))
           THEN /\ pc' = [pc EXCEPT ![m] = "skipped"]
                /\ UNCHANGED <<distribution, nluCalls, resolveCalls>>
           ELSE IF CacheHas(distCache, ev.expr)
                THEN /\ Address(m, ev, distCache[ev.expr])
                     /\ UNCHANGED resolveCalls
                ELSE /\ pc' = [pc EXCEPT ![m] = "resolving"]
                     /\ resolveCalls' = [resolveCalls EXCEPT ![ev.expr] = @ + 1]
                     /\ UNCHANGED <<distribution, nluCalls>>
    /\ UNCHANGED <<distCache, bot, srv, aiResp, call, sent, handlerRuns, resolveFails, caught>>

\* atlas.resolveTags resolves with d: the result is stored, read back and the
\* listener runs on to the aiRequest call.
ResolveReturn(m) ==
    /\ pc[m] = "resolving"
    /\ UNCHANGED probeVars
    /\ \E d \in Dists :
        /\ distCache' = [distCache EXCEPT ![msg[m].expr] = d]
        /\ Address(m, msg[m], distCache'[msg[m].expr])
    /\ UNCHANGED <<msg, bot, srv, aiResp, call, sent, handlerRuns,
                   resolveCalls, resolveFails, afterFail, caught>>

\* ResolveFail with the rejection stored in the cache as an empty distribution.
ResolveFailCached(m) ==
    /\ pc[m] = "resolving"
    /\ UNCHANGED probeVars
    /\ pc' = [pc EXCEPT ![m] = "failedResolve"]
    /\ distCache' = [distCache EXCEPT ![msg[m].expr] = NoDist]
    /\ resolveFails' = [resolveFails EXCEPT ![msg[m].expr] = @ + 1]
    /\ UNCHANGED <<msg, bot, srv, distribution, aiResp, call, sent,
                   nluCalls, handlerRuns, resolveCalls, afterFail, caught>>

\* ResolveFail with the rejection taking the process down: every invocation
\* still under way dies with it.
ResolveFailFatal(m) ==
    /\ pc[m] = "resolving"
    /\ UNCHANGED probeVars
    /\ pc' = [k \in Msgs |->
                IF k = m THEN "failedResolve"
                ELSE IF pc[k] \in {"resolving", "nlu", "updating", "sending"}
                     THEN "dead" ELSE pc[k]]
    /\ resolveFails' = [resolveFails EXCEPT ![msg[m].expr] = @ + 1]
    /\ UNCHANGED <<msg, distCache, bot, srv, distribution, aiResp, call, sent,
                   nluCalls, handlerRuns, resolveCalls, afterFail, caught>>

\* atlas.resolveTags rejects: the listener's promise rejects.
ResolveFail(m) ==
    /\ pc[m] = "resolving"
    /\ UNCHANGED probeVars
    /\ pc' = [pc EXCEPT ![m] = "failedResolve"]
    /\ resolveFails' = [resolveFails EXCEPT ![msg[m].expr] = @ + 1]
    /\ UNCHANGED <<msg, distCache, bot, srv, distribution, aiResp, call, sent,
                   nluCalls, handlerRuns, resolveCalls, afterFail, caught>>

\* The listener from the handler lookup on, with the NLU result r: the
\* handler up to its first await and, unless it suspends, composition and send.
Dispatch(m, r) ==
    \E chance \in RandomDraws(findHandler(r.action), r.parameters) :
        LET h == findHandler(r.action)
            base == BaseResp(distribution[m], msg[m].threadId, r)
            out == InvokeHandler(h, bot, r.parameters, chance)
        IN  /\ aiResp' = [aiResp EXCEPT ![m] = r]
            /\ IF h = NoHandler
               THEN /\ Send(m, WithFallback(base, r.action))
                    /\ UNCHANGED <<call, handlerRuns, caught>>
               ELSE /\ handlerRuns' = [handlerRuns EXCEPT ![m] = @ + 1]
                    /\ CASE out.kind = "return" ->
                              /\ Send(m, WithFallback(WithResult(base, out.value), r.action))
                              /\ UNCHANGED <<call, caught>>
                         [] out.kind = "throw" ->
                              /\ caught' = [caught EXCEPT ![m] = out.value]
                              /\ Send(m, WithFallback(WithError(base, out.value), r.action))
                              /\ UNCHANGED call
                         [] out.kind = "await" ->
                              /\ call' = [call EXCEPT ![m] =
                                    [NoCall EXCEPT !.kind = out.call,
                                                   !.updates = out.updates]]
                              /\ pc' = [pc EXCEPT ![m] = "updating"]
                              /\ UNCHANGED <<sent, caught>>

\* aiRequest resolves with one of the results AiResps.
NluResponse(m) ==
    /\ pc[m] = "nlu"
    /\ UNCHANGED probeVars
    /\ \E r \in AiResps : Dispatch(m, r)
    /\ UNCHANGED <<msg, distCache, bot, srv, distribution, nluCalls,
                   resolveCalls, resolveFails, afterFail>>

\* NluError with the rejection caught and answered like a handler failure.
NluErrorReplies(m) ==
    /\ pc[m] = "nlu"
    /\ UNCHANGED probeVars
    /\ pc' = [pc EXCEPT ![m] = "failedNlu"]
    /\ sent' = [sent EXCEPT ![m] =
            Append(@, WithError(BaseResp(distribution[m], msg[m].threadId, NoAi),
                                FetchError))]
    /\ UNCHANGED <<msg, distCache, bot, srv, distribution, aiResp, call,
                   nluCalls, handlerRuns, resolveCalls, resolveFails, afterFail, caught>>

\* NluError with the request's 'error' event left unhandled: the promise of
\* aiRequest never settles.
NluErrorNeverSettles(m) ==
    /\ pc[m] = "nlu"
    /\ UNCHANGED probeVars
    /\ pc' = [pc EXCEPT ![m] = "hung"]
    /\ UNCHANGED <<msg, distCache, bot, srv, distribution, aiResp, call, sent,
                   nluCalls, handlerRuns, resolveCalls, resolveFails, afterFail, caught>>

\* aiRequest rejects (the request's 'error' event): the listener's promise
\* rejects.
NluError(m) ==
    /\ pc[m] = "nlu"
    /\ UNCHANGED probeVars
    /\ pc' = [pc EXCEPT ![m] = "failedNlu"]
    /\ UNCHANGED <<msg, distCache, bot, srv, distribution, aiResp, call, sent,
                   nluCalls, handlerRuns, resolveCalls, resolveFails, afterFail, caught>>

\* The directory service performs the PATCH request of message m.
ServerPatch(m) ==
    /\ pc[m] = "updating"
    /\ UNCHANGED probeVars
    /\ ~call[m].applied
    /\ IF call[m].kind = "user"
       THEN LET u == PatchUser(srv, call[m].updates)
            IN  /\ srv' = u
                /\ call' = [call EXCEPT ![m].applied = TRUE, ![m].user = u]
       ELSE LET t == PatchTag(srv.tag, call[m].updates)
            IN  /\ srv' = [srv EXCEPT !.tag = t]
                /\ call' = [call EXCEPT ![m].applied = TRUE, ![m].tag = t]
    /\ UNCHANGED <<pc, msg, distCache, bot, distribution, aiResp, sent,
                   nluCalls, handlerRuns, resolveCalls, resolveFails, afterFail, caught>>

\* The handler's confirmation once the PATCH answer is stored in state.bot.
Confirmation(c, newBot) ==
    IF c.kind = "user" THEN ConfirmUser(c.user) ELSE ConfirmTag(c.tag, newBot)

\* updateBotUser / updateBotTag after the await.
Refreshed(c, oldBot) ==
    IF c.kind = "user" THEN c.user ELSE [oldBot EXCEPT !.tag = c.tag]

\* The PATCH request resolves: state.bot is refreshed, the handler returns
\* its confirmation, the response is composed and sent.
PatchReturn(m) ==
    /\ pc[m] = "updating"
    /\ UNCHANGED probeVars
    /\ call[m].applied
    /\ bot' = Refreshed(call[m], bot)
    /\ Send(m, WithFallback(
                 WithResult(BaseResp(distribution[m], msg[m].threadId, aiResp[m]),
                            Confirmation(call[m], bot')),
                 aiResp[m].action))
    /\ UNCHANGED <<msg, distCache, srv, distribution, aiResp, call,
                   nluCalls, handlerRuns, resolveCalls, resolveFails, afterFail, caught>>

\* The PATCH request rejects, before or after the service performed it: the
\* listener's catch block composes the apology, which is sent.
PatchFail(m) ==
    /\ pc[m] = "updating"
    /\ UNCHANGED probeVars
    /\ caught' = [caught EXCEPT ![m] = FetchError]
    /\ Send(m, WithFallback(
                 WithError(BaseResp(distribution[m], msg[m].threadId, aiResp[m]),
                           FetchError),
                 aiResp[m].action))
    /\ UNCHANGED <<msg, distCache, bot, srv, distribution, aiResp, call,
                   nluCalls, handlerRuns, resolveCalls, resolveFails, afterFail>>

\* msgSend.send resolves: the listener returns and its locals are gone.
SendReturn(m) ==
    /\ pc[m] = "sending"
    /\ UNCHANGED probeVars
    /\ pc' = [pc EXCEPT ![m] = "sent"]
    /\ msg' = [msg EXCEPT ![m] = NoEvent]
    /\ distribution' = [distribution EXCEPT ![m] = NoDist]
    /\ aiResp' = [aiResp EXCEPT ![m] = NoAi]
    /\ call' = [call EXCEPT ![m] = NoCall]
    /\ UNCHANGED <<distCache, bot, srv, sent,
                   nluCalls, handlerRuns, resolveCalls, resolveFails, afterFail, caught>>

\* msgSend.send rejects: the listener's promise rejects and its locals are gone.
SendFail(m) ==
    /\ pc[m] = "sending"
    /\ UNCHANGED probeVars
    /\ pc' = [pc EXCEPT ![m] = "failedSend"]
    /\ msg' = [msg EXCEPT ![m] = NoEvent]
    /\ distribution' = [distribution EXCEPT ![m] = NoDist]
    /\ aiResp' = [aiResp EXCEPT ![m] = NoAi]
    /\ call' = [call EXCEPT ![m] = NoCall]
    /\ UNCHANGED <<distCache, bot, srv, sent,
                   nluCalls, handlerRuns, resolveCalls, resolveFails, afterFail, caught>>

Next ==
    \E m \in Msgs :
        \/ Receive(m)
        \/ ResolveReturn(m)
        \/ ResolveFail(m)
        \/ NluResponse(m)
        \/ NluError(m)
        \/ ServerPatch(m)
        \/ PatchReturn(m)
        \/ PatchFail(m)
        \/ SendReturn(m)
        \/ SendFail(m)

Spec == Init /\ [][Next]_vars

\* The external call message m is suspended on returns or fails (for a PATCH
\* request, the directory service performs it first or it fails).
Settle(m) ==
    \/ ResolveReturn(m)
    \/ ResolveFail(m)
    \/ NluResponse(m)
    \/ NluError(m)
    \/ ServerPatch(m)
    \/ PatchReturn(m)
    \/ PatchFail(m)
    \/ SendReturn(m)
    \/ SendFail(m)

\* The listener with every external call eventually answered; the receiver
\* need not deliver any further message.
FairSpec == Spec /\ \A m \in Msgs : WF_vars(Settle(m))

\* ---------------------------------------------- the name handlers alone

MaxNameLen == 5

\* What the NLU service may give as the type parameter: absent, the four the
\* handlers know, and one they do not.
Types == {"", "first name", "last name", "middle name", "tag", "nickname"}

NameChars == {"a", "B", " "}

\* What it may give as the name parameter: absent, empty, or any text.
Names ==
    {Undefined, <<>>} \cup UNION {[1..n -> NameChars] : n \in 1..MaxNameLen}

\* Every call of a handler: each intent with each type and name.
HandlerAiResps ==
    {Ai(h, Params(t, n), Speech) : h \in HandlerNames, t \in Types, n \in Names}

\* The one message of this specification and the event it arrived with.
TheMsg == 1
DirectDist == [userids |-> {BotId, "u1"}]
TheEvent ==
    [source |-> "u1", expr |-> "e1", threadId |-> ThreadOf(TheMsg),
     data |-> Body(<<Part("text/plain", TextPlain)>>)]

\* The listener suspended on the aiRequest call of a direct message, nothing
\* else received.
InitHandlers ==
    /\ pc = [m \in Msgs |-> IF m = TheMsg THEN "nlu" ELSE "idle"]
    /\ msg = [m \in Msgs |-> IF m = TheMsg THEN TheEvent ELSE NoEvent]
    /\ distCache = [e \in Exprs |-> IF e = "e1" THEN DirectDist ELSE NoEntry]
    /\ bot = InitBot
    /\ srv = InitBot
    /\ distribution = [m \in Msgs |-> IF m = TheMsg THEN DirectDist ELSE NoDist]
    /\ aiResp = [m \in Msgs |-> NoAi]
    /\ call = [m \in Msgs |-> NoCall]
    /\ sent = [m \in Msgs |-> <<>>]
    /\ nluCalls = [m \in Msgs |-> IF m = TheMsg THEN 1 ELSE 0]
    /\ handlerRuns = [m \in Msgs |-> 0]
    /\ resolveCalls = [e \in Exprs |-> IF e = "e1" THEN 1 ELSE 0]
    /\ resolveFails = [e \in Exprs |-> 0]
    /\ afterFail = [m \in Msgs |-> FALSE]
    /\ caught = [m \in Msgs |-> NoError]
    /\ probe = NoProbe
    /\ answer = "none"

\* aiRequest resolves with a result that names a handler.
HandlerCall(m) ==
    /\ pc[m] = "nlu"
    /\ UNCHANGED probeVars
    /\ \E r \in HandlerAiResps : Dispatch(m, r)
    /\ UNCHANGED <<msg, distCache, bot, srv, distribution, nluCalls,
                   resolveCalls, resolveFails, afterFail>>

NextHandlers ==
    \/ HandlerCall(TheMsg)
    \/ ServerPatch(TheMsg)
    \/ PatchReturn(TheMsg)
    \/ PatchFail(TheMsg)
    \/ SendReturn(TheMsg)
    \/ SendFail(TheMsg)

SpecHandlers == InitHandlers /\ [][NextHandlers]_vars

\* ------------------------------------------- the addressing policy alone

ProbeChars == {"a", "A", "b", "."}

\* The non-empty texts of at most n characters: the listener calls
\* needsResponse with a truthy text only.
TextsUpTo(n) == UNION {[1..k -> ProbeChars] : k \in 1..n}

ProbeSenders == {"u1", BotId}

ProbeDists == {[userids |-> S] : S \in SUBSET {BotId, "u1", "u2"}}

\* Identities of the bot: the last name may be missing.
ProbeBots ==
    {[InitBot EXCEPT !.first_name = f, !.last_name = l, !.tag.slug = t] :
        f \in {<<"a">>, <<"A", "b">>},
        l \in {Undefined, <<"b">>},
        t \in {<<"a">>, <<"a", ".", "b">>}}

InitAddressing ==
    /\ ListenerInit
    /\ probe \in [sender : ProbeSenders, dist : ProbeDists,
                  text : TextsUpTo(MaxLen), bot : ProbeBots]
    /\ answer = "none"

\* One call of needsResponse, by a listener started with probe.bot whose
\* state.bot is still that object.
EvalNeedsResponse ==
    /\ answer = "none"
    /\ answer' = IF needsResponse(probe.bot.id, probe.bot, probe.sender,
                                  probe.dist, probe.text)
                 THEN "true" ELSE "undefined"
    /\ UNCHANGED <<listenerVars, probe>>

NextAddressing == EvalNeedsResponse

SpecAddressing == InitAddressing /\ [][NextAddressing]_vars

\* ------------------------------------------------------------ properties

\* The message passed the addressing gate: it had text and needsResponse
\* answered true.
Qualified(m) ==
    pc[m] \in {"nlu", "updating", "sending", "sent", "failedNlu", "failedSend"}

\* The listener invocation of the message is over.
Over(m) ==
    pc[m] \in {"skipped", "ignored", "failedResolve", "failedNlu", "sent", "failedSend"}

\* The listener reached msgSend.send for the message.
ReachedSend(m) == pc[m] \in {"sending", "sent", "failedSend"}

\* The distribution resolutions of expression e still in flight.
Pending(e) == {m \in Msgs : pc[m] = "resolving" /\ msg[m].expr = e}

\* C1, as stated: every qualifying message gets exactly one response over
\* its whole handling, never zero and never more than one.
C1_ExactlyOnePerQualifying ==
    \A m \in Msgs :
        /\ Len(sent[m]) <= 1
        /\ (Qualified(m) /\ Over(m)) => Len(sent[m]) = 1

\* C1, amended: a qualifying message never gets more than one response; it
\* has exactly one from the moment the listener reaches the send, which it
\* does once the NLU query answered and the handler, if any, completed or
\* failed; it has none while these are pending and none, for good, when the
\* NLU query failed.
C1_OneResponseUnlessNluFails ==
    \A m \in Msgs :
        /\ Len(sent[m]) <= 1
        /\ ReachedSend(m) => Len(sent[m]) = 1
        /\ ~ReachedSend(m) => Len(sent[m]) = 0
        /\ (Qualified(m) /\ Over(m) /\ pc[m] # "failedNlu") => Len(sent[m]) = 1

\* Every message was handled to its end and each got its one response, the
\* handling of the messages having overlapped or not.
C1_Witness ==
    \A m \in Msgs : pc[m] = "sent" /\ Len(sent[m]) = 1

\* C2, as stated: while no resolution of an expression has failed,
\* atlas.resolveTags has been invoked at most once for it.
C2_ResolvedOncePerExpression ==
    \A e \in Exprs : resolveFails[e] = 0 => resolveCalls[e] <= 1

\* C3, as stated: an entry of distCache, once set, is never removed nor
\* replaced by another value.
C3_CacheEntryStable ==
    [][\A e \in Exprs : CacheHas(distCache, e) => distCache'[e] = distCache[e]]_vars

\* C4, as stated: with no handler for the action, the text sent is the
\* nothing-to-do sentence, whatever the fulfillment speech.
C4_NoHandlerAlwaysNothingToDo ==
    \A m \in Msgs :
        (pc[m] = "sending" /\ findHandler(aiResp[m].action) = NoHandler)
            => /\ Len(sent[m]) = 1
               /\ sent[m][1].text =
                    <<"I have nothing to do with: \"", aiResp[m].action, "\"">>

\* C4, amended: with no handler for the action and an empty fulfillment
\* speech, the text sent is the nothing-to-do sentence naming the action.
C4_NoHandlerNoSpeechNothingToDo ==
    \A m \in Msgs :
        (pc[m] = "sending" /\ findHandler(aiResp[m].action) = NoHandler
            /\ ~Truthy(aiResp[m].speech))
            => /\ Len(sent[m]) = 1
               /\ sent[m][1].text =
                    <<"I have nothing to do with: \"", aiResp[m].action, "\"">>

\* A response was sent for an action without handler whose NLU result had no
\* fulfillment speech.
C4_Witness ==
    \E m \in Msgs :
        /\ pc[m] = "sending"
        /\ aiResp[m].action = "unknown.intent"
        /\ aiResp[m].speech = <<>>
        /\ Len(sent[m]) = 1

\* C5, as stated: with no handler for the action, no handler runs, no
\* identity update is issued and the text sent is the fulfillment speech.
C5_MissSendsSpeech ==
    \A m \in Msgs :
        (pc[m] = "sending" /\ aiResp[m].action \notin HandlerNames)
            => /\ handlerRuns[m] = 0
               /\ call[m].kind = "none"
               /\ Len(sent[m]) = 1
               /\ sent[m][1].text = aiResp[m].speech

\* C5, amended: with no handler for the action, no handler runs, no identity
\* update is issued, and the text sent is the fulfillment speech whenever
\* that speech is not empty.
C5_MissSendsNonEmptySpeech ==
    \A m \in Msgs :
        (pc[m] = "sending" /\ aiResp[m].action \notin HandlerNames)
            => /\ handlerRuns[m] = 0
               /\ call[m].kind = "none"
               /\ caught[m] = NoError
               /\ Len(sent[m]) = 1
               /\ Truthy(aiResp[m].speech) => sent[m][1].text = aiResp[m].speech

\* A response was sent for an action without handler whose NLU result
\* carried a fulfillment speech.
C5_Witness ==
    \E m \in Msgs :
        /\ pc[m] = "sending"
        /\ aiResp[m].action = "unknown.intent"
        /\ aiResp[m].speech = Speech
        /\ sent[m] # <<>>

\* C6: when the handler of a message failed, with error e, a response was
\* sent for that message: its text is the apology with e in parentheses,
\* its html the apology with e in a <pre> block, its distribution and
\* threadId those of the incoming message.
C6_HandlerFailureAnswered ==
    \A m \in Msgs :
        caught[m] # NoError
            => /\ ReachedSend(m)
               /\ Len(sent[m]) = 1
               /\ sent[m][1].text =
                    <<"Affraid I can't do that boss...\n(">> \o caught[m] \o <<")">>
               /\ sent[m][1].html =
                    <<"Affraid I can't do that boss...<br/><pre>">> \o caught[m]
                        \o <<"</pre>">>
               /\ sent[m][1].threadId = ThreadOf(m)
               /\ sent[m][1].distribution \in Dists
               /\ pc[m] = "sending" =>
                    /\ sent[m][1].threadId = msg[m].threadId
                    /\ sent[m][1].distribution = distribution[m]

\* One message's handler threw, another's update call was rejected after the
\* directory service had performed it, and both were answered.
C6_Witness ==
    \E m, k \in Msgs :
        /\ caught[m] = TypeError
        /\ caught[k] = FetchError
        /\ pc[k] = "sending"
        /\ call[k].applied
        /\ sent[m] # <<>> /\ sent[k] # <<>>

\* C7: a message whose NLU query failed had no handler invoked, no identity
\* update issued and no response sent.
C7_NluFailureAborts ==
    \A m \in Msgs :
        pc[m] = "failedNlu"
            => /\ handlerRuns[m] = 0
               /\ call[m].kind = "none"
               /\ caught[m] = NoError
               /\ sent[m] = <<>>

\* The NLU query of a message failed and every message's handling is over.
C7_Witness ==
    /\ \E m \in Msgs : pc[m] = "failedNlu" /\ nluCalls[m] = 1
    /\ \A m \in Msgs : Over(m)

Others == (probe.dist.userids \ {probe.bot.id}) \ {probe.sender}

\* text contains name, a string, up to case.
ContainsCI(text, name) ==
    \E i \in 1..(Len(text) + 1) :
        /\ i + Len(name) - 1 <= Len(text)
        /\ \A j \in 1..Len(name) : Lower(name[j]) = Lower(text[i + j - 1])

\* text mentions the bot b: it contains, up to case, the first name, the
\* last name if there is one, or the tag slug.
Mentions(b, text) ==
    \/ ContainsCI(text, b.first_name)
    \/ (b.last_name # Undefined /\ ContainsCI(text, b.last_name))
    \/ ContainsCI(text, b.tag.slug)

\* C9: needsResponse returns true for every text when no member of the
\* distribution is left once the bot and the sender are removed, the sender
\* being the bot or the distribution empty included.
C9_DirectMessageAnswered ==
    (answer # "none" /\ Others = {}) => answer = "true"

\* needsResponse returned true for a text that mentions no name of the bot,
\* sent by the bot itself to an empty distribution.
C9_Witness ==
    /\ answer = "true"
    /\ probe.sender = probe.bot.id
    /\ probe.dist.userids = {}
    /\ ~Mentions(probe.bot, probe.text)
    /\ probe.bot.last_name # Undefined

\* C10, as stated: with a member other than the bot and the sender,
\* needsResponse is truthy exactly when the text mentions the bot, for every
\* identity, one without last name included.
C10_GroupAnsweredIffMentioned ==
    (answer # "none" /\ Others # {})
        => (answer = "true" <=> Mentions(probe.bot, probe.text))

\* C11: a per-message failure is isolated: whatever failures the other
\* messages meet, before or while it is handled, a message that passed the
\* addressing gate gets its response sent unless its own NLU query fails.
C11_FailureIsolated ==
    \A k \in Msgs :
        (pc[k] \in {"nlu", "updating"})
            ~> ((ReachedSend(k) /\ Len(sent[k]) = 1) \/ pc[k] = "failedNlu")

\* A message was received after the distribution resolution of an earlier one
\* had failed, and its response was sent.
C11_Witness ==
    \E m, k \in Msgs :
        /\ pc[m] = "failedResolve"
        /\ afterFail[k]
        /\ pc[k] = "sent"
        /\ Len(sent[k]) = 1

\* The message has no text content: no body, no text/plain part, or an empty
\* first text/plain part.
NoTextContent(data) ==
    \/ ~data.hasBody
    \/ \A i \in 1..Len(data.body) : data.body[i].type # "text/plain"
    \/ \E i \in 1..Len(data.body) :
        /\ data.body[i].type = "text/plain"
        /\ data.body[i].value = <<>>
        /\ \A j \in 1..(i - 1) : data.body[j].type # "text/plain"

\* Message m is delivered in this step.
Delivered(m) == pc[m] = "idle" /\ pc'[m] # "idle"

\* C12: a message with no text content is silently skipped: its delivery
\* calls no resolver, leaves the distribution cache and the identity as they
\* were, and no NLU query, handler, update call or send ever happens for it.
C12_NoTextSkipped ==
    /\ [][\A m \in Msgs :
            (Delivered(m) /\ NoTextContent(msg'[m].data)) =>
                /\ pc'[m] = "skipped"
                /\ UNCHANGED <<distCache, resolveCalls, bot, srv, nluCalls,
                               handlerRuns, call, sent, distribution>>]_vars
    /\ [](\A m \in Msgs :
            pc[m] = "skipped" =>
                /\ NoTextContent(msg[m].data)
                /\ nluCalls[m] = 0
                /\ handlerRuns[m] = 0
                /\ call[m] = NoCall
                /\ sent[m] = <<>>)

\* A message whose first text/plain part is empty has been skipped while
\* another message was being answered.
C12_Witness ==
    \E m, k \in Msgs :
        /\ pc[m] = "skipped"
        /\ msg[m].data.hasBody
        /\ \E i \in 1..Len(msg[m].data.body) :
                msg[m].data.body[i] = Part("text/plain", <<>>)
        /\ pc[k] \in {"nlu", "updating", "sending"}

\* The handler named h has been called for the one message of SpecHandlers
\* and the listener's locals are still there.
Handled(h) ==
    /\ aiResp[TheMsg].action = h
    /\ pc[TheMsg] \in {"updating", "sending"}

Refusals ==
    { <<"I can't delete my whole name silly.">>, <<"I must have a first name!">>,
      <<"I must have a last name!">>, <<"I must have a tag!">> }

\* C13: the Delete handler never changes first name, last name or tag: for
\* the types 'first name', 'last name', 'tag' and an absent type it answers a
\* refusal, issues no update call and leaves the identity as it was; it
\* issues an update call only for the type 'middle name', and then the patch
\* is exactly middle_name = ''.
C13_DeleteOnlyMiddle ==
    Handled("name.agent.delete") =>
        LET type == aiResp[TheMsg].parameters.type
            c == call[TheMsg]
        IN  /\ bot.first_name = InitBot.first_name
            /\ bot.last_name = InitBot.last_name
            /\ bot.tag = InitBot.tag
            /\ type \in {"first name", "last name", "tag", ""} =>
                /\ c.kind = "none"
                /\ pc[TheMsg] = "sending"
                /\ sent[TheMsg][1].text \in Refusals
                /\ bot = InitBot
                /\ srv = InitBot
            /\ c.kind # "none" =>
                /\ type = "middle name"
                /\ c.kind = "user"
                /\ c.updates = ("middle_name" :> <<>>)

NoSpace(t) == \A i \in 1..Len(t) : t[i] # " "
Spaces(k) == [i \in 1..k |-> " "]
IsPrefix(p, t) == Len(p) <= Len(t) /\ SubSeq(t, 1, Len(p)) = p

\* The Change handler has been called with no type and a free-form name.
ChangedFreeForm ==
    /\ Handled("name.agent.change")
    /\ aiResp[TheMsg].parameters.type = ""
    /\ Truthy(aiResp[TheMsg].parameters.name)

\* C14: the Change handler called with no type and a free-form name issues
\* exactly one patch-user call and no patch-tag call, whose fields are the
\* whitespace-separated tokens of the name, at most three of them: one
\* token is first_name alone; two are first_name and last_name; three are
\* first_name, middle_name and last_name in that order.
C14_FreeFormSplit ==
    ChangedFreeForm =>
        LET name == aiResp[TheMsg].parameters.name
            c == call[TheMsg]
            u == c.updates
            runs == 1..Len(name)
        IN  /\ c.kind = "user"
            /\ caught[TheMsg] \in {NoError, FetchError}
            /\ \A f \in DOMAIN u : NoSpace(u[f])
            /\ \/ /\ DOMAIN u = {"first_name"}
                  /\ name = u.first_name
               \/ /\ DOMAIN u = {"first_name", "last_name"}
                  /\ \E r \in runs : name = u.first_name \o Spaces(r) \o u.last_name
               \/ /\ DOMAIN u = {"first_name", "middle_name", "last_name"}
                  /\ \E r1, r2 \in runs :
                        LET p == u.first_name \o Spaces(r1) \o u.middle_name
                                    \o Spaces(r2) \o u.last_name
                        IN  name = p \/ IsPrefix(p \o <<" ">>, name)

\* A name of three words was given and the directory service has stored them
\* as first, middle and last name.
C14_Witness ==
    /\ ChangedFreeForm
    /\ aiResp[TheMsg].parameters.name = <<"B", " ", "a", " ", "a">>
    /\ call[TheMsg].applied
    /\ srv.first_name = <<"B">>
    /\ srv.middle_name = <<"a">>
    /\ srv.last_name = <<"a">>

\* The slug of a name, character by character: a whitespace character that
\* follows another is dropped, any other becomes '.', a capital its small
\* letter.
SlugOf(name) ==
    LET Kept(i) == ~(name[i] = " " /\ i > 1 /\ name[i - 1] = " ")
        kept == SelectSeq([i \in 1..Len(name) |-> i], Kept)
        Small(c) == CASE c = " " -> "."
                      [] c = "A" -> "a"
                      [] c = "B" -> "b"
                      [] OTHER -> c
    IN  [k \in 1..Len(kept) |-> Small(name[kept[k]])]

\* The text has t as a contiguous part.
Contains(text, t) ==
    \E i \in 1..(Len(text) + 1) :
        i + Len(t) - 1 <= Len(text) /\ SubSeq(text, i, i + Len(t) - 1) = t

\* The Change handler has been called with type 'tag'.
ChangedTag ==
    /\ Handled("name.agent.change")
    /\ aiResp[TheMsg].parameters.type = "tag"

\* One patch-tag call carries the slug of the name; once it has succeeded
\* the tag of state.bot alone is replaced by the tag returned and the
\* confirmation sent names the slug.
TagPatched ==
    LET c == call[TheMsg]
        slug == SlugOf(aiResp[TheMsg].parameters.name)
    IN  /\ c.kind = "tag"
        /\ c.updates = ("slug" :> slug)
        /\ pc[TheMsg] = "updating" => bot = InitBot
        /\ (pc[TheMsg] = "sending" /\ caught[TheMsg] = NoError) =>
            /\ c.tag = [id |-> InitBot.tag.id, slug |-> slug]
            /\ srv.tag = c.tag
            /\ bot = [InitBot EXCEPT !.tag = c.tag]
            /\ Len(sent[TheMsg]) = 1
            /\ Contains(sent[TheMsg][1].text, slug \o <<":">> \o bot.org.slug)

\* C15: the Change handler called with type 'tag' issues exactly one
\* patch-tag call that carries the slug of the supplied name (every
\* whitespace run one '.', lower-cased) and no patch-user call; when the call
\* succeeds only the tag of the in-memory identity is replaced, by the tag
\* the server returned, the name fields stay, and the confirmation sent
\* names the new slug.
C15_TagChange == ChangedTag => TagPatched

\* The same for the calls that do carry a name parameter.
TagChangeOfName ==
    (ChangedTag /\ aiResp[TheMsg].parameters.name # Undefined) => TagPatched

\* The field of the user record each name type stands for.
FieldOf(type) ==
    CASE type = "first name" -> "first_name"
      [] type = "last name" -> "last_name"
      [] type = "middle name" -> "middle_name"

\* C16: the Change handler called with type 'first name', 'last name' or
\* 'middle name' issues exactly one patch-user call whose patch is exactly
\* that one field set to the supplied name; called with neither type nor name
\* it answers 'To what?', issues no update call and leaves the identity as it
\* was.
C16_SingleFieldOrPrompt ==
    Handled("name.agent.change") =>
        LET p == aiResp[TheMsg].parameters
            c == call[TheMsg]
        IN  /\ p.type \in {"first name", "last name", "middle name"} =>
                /\ c.kind = "user"
                /\ c.updates = (FieldOf(p.type) :> p.name)
                /\ pc[TheMsg] = "updating" => bot = InitBot
            /\ (p.type = "" /\ ~Truthy(p.name)) =>
                /\ c.kind = "none"
                /\ pc[TheMsg] = "sending"
                /\ sent[TheMsg] = <<[BaseResp(distribution[TheMsg], msg[TheMsg].threadId,
                                              aiResp[TheMsg])
                                        EXCEPT !.text = <<"To what?">>]>>
                /\ bot = InitBot
                /\ srv = InitBot

\* The middle name alone was set to 'a B' on the server and in state.bot.
C16_Witness ==
    /\ Handled("name.agent.change")
    /\ aiResp[TheMsg].parameters = Params("middle name", <<"a", " ", "B">>)
    /\ pc[TheMsg] = "sending"
    /\ bot = [InitBot EXCEPT !.middle_name = <<"a", " ", "B">>]
    /\ srv = bot

\* What has happened for message m: n NLU queries, h handler calls, an
\* identity update call issued or not, k sends.
Effects(m, n, h, update, k) ==
    /\ nluCalls[m] = n
    /\ handlerRuns[m] = h
    /\ (call[m].kind # "none") = update
    /\ Len(sent[m]) = k

\* C17: the steps for one message run in the fixed order addressing gate,
\* NLU query, intent lookup, handler, composition, send, each only after
\* the one before has completed: before the gate is passed nothing has
\* happened, the handler runs only on an NLU result, an update call is
\* issued only by a handler, the send comes last; a message that fails the
\* gate never causes an NLU query, a handler call, an update or a send.
C17_PipelineOrder ==
    \A m \in Msgs :
        /\ pc[m] \in {"idle", "skipped", "resolving", "failedResolve", "ignored"} =>
            /\ Effects(m, 0, 0, FALSE, 0)
            /\ aiResp[m] = NoAi
        /\ pc[m] = "ignored" =>
            /\ distribution[m] \in Dists
            /\ (distribution[m].userids \ {BotId}) \ {msg[m].source} # {}
        /\ pc[m] \in {"nlu", "failedNlu"} =>
            /\ Effects(m, 1, 0, FALSE, 0)
            /\ aiResp[m] = NoAi
            /\ distribution[m] \in Dists
        /\ pc[m] = "updating" =>
            /\ Effects(m, 1, 1, TRUE, 0)
            /\ aiResp[m] # NoAi
            /\ findHandler(aiResp[m].action) # NoHandler
        /\ pc[m] = "sending" =>
            /\ nluCalls[m] = 1
            /\ Len(sent[m]) = 1
            /\ aiResp[m] # NoAi
            /\ handlerRuns[m] = (IF findHandler(aiResp[m].action) = NoHandler THEN 0 ELSE 1)
            /\ call[m].kind # "none" => handlerRuns[m] = 1
        /\ pc[m] \in {"sent", "failedSend"} =>
            /\ nluCalls[m] = 1
            /\ Len(sent[m]) = 1

\* A message failed the gate while another had gone through every step up
\* to an identity update and its send.
C17_Witness ==
    \E m, k \in Msgs :
        /\ pc[m] = "ignored"
        /\ pc[k] = "sent"
        /\ handlerRuns[k] = 1
        /\ bot # InitBot

\* C18: under any interleaving of concurrently handled messages whose
\* handlers issue patch calls, whenever no identity update is in flight (and
\* none has been rejected) the in-memory identity, tag included, is the
\* identity the server holds: a response that arrives late never leaves the
\* snapshot older than the server's.
C18_SnapshotIsServers ==
    (\A m \in Msgs : pc[m] # "updating" /\ caught[m] = NoError) => bot = srv

\* The step is the successful completion of the patch call of message m.
PatchCompletes(m) ==
    /\ pc[m] = "updating"
    /\ call[m].applied
    /\ pc'[m] = "sending"
    /\ caught'[m] = NoError

\* The addressing gate is decided for message m in this step.
Gated(m) == pc[m] \in {"idle", "resolving"} /\ pc'[m] \in {"nlu", "ignored"}

\* C19: the in-memory identity changes only at the successful completion of
\* a patch-user or patch-tag call, to what that call returned: no other step
\* (the Get handler, a refusal, a skipped or ignored message, an NLU failure,
\* a rejected update) changes it; and the addressing gate of a message
\* decided after an update uses the refreshed names and slug.
C19_IdentityFrame ==
    [][ /\ bot' # bot =>
            \E m \in Msgs :
                /\ PatchCompletes(m)
                /\ \/ call[m].kind = "user" /\ bot' = call[m].user
                   \/ call[m].kind = "tag" /\ bot' = [bot EXCEPT !.tag = call[m].tag]
        /\ \A m \in Msgs :
            Gated(m) =>
                (pc'[m] = "nlu" <=>
                    needsResponse(BotId, bot, msg'[m].source, distribution'[m],
                                  TextOf(msg'[m].data)))
      ]_vars

\* A group message that mentions only the new first name passed the gate
\* after the name was changed.
C19_Witness ==
    \E m \in Msgs :
        /\ pc[m] = "nlu"
        /\ bot.first_name = <<"B">>
        /\ needsResponse(BotId, bot, msg[m].source, distribution[m], TextOf(msg[m].data))
        /\ ~needsResponse(BotId, InitBot, msg[m].source, distribution[m],
                          TextOf(msg[m].data))

\* C20: every external call eventually returning or failing, the handling
\* of every received message eventually ends, skipped, ignored, aborted or
\* with its response sent, whatever the other messages do: none waits on
\* another's.
C20_EveryHandlingEnds ==
    \A m \in Msgs : (pc[m] # "idle") ~> Over(m)

\* Both handlings have ended, the first aborted while the second, received
\* before that, went on to send its response.
C20_Witness ==
    \E m, k \in Msgs :
        /\ pc[m] = "failedNlu"
        /\ pc[k] = "sent"
        /\ ~afterFail[k]
        /\ \A j \in Msgs : Over(j)

====
